---- MODULE Spec2Model ----
(***************************************************************************)
(* Position lifecycle of the pool scanner (src/src/pool_scanner.rs) and    *)
(* its profit monitor (src/src/profit_monitor.rs).                         *)
(*                                                                         *)
(* One variable per field of PoolScanner that the loop mutates, the wall   *)
(* clock, the position of the scan loop, and history variables that record *)
(* what the last handler did.  Every Rust function is an operator from a   *)
(* scanner state and the answers of the upstream services to the SET of    *)
(* states the function can leave behind; `a.await?; b` becomes the union   *)
(* over the results of a of the results of b.                              *)
(*                                                                         *)
(* Units: SOL amounts and values are integers, token amounts are counted   *)
(* in units of 10^6 base units, prices are USD per token unit, time is in  *)
(* seconds since the scanner was constructed.  f64 division is integer     *)
(* division, so a round trip through a quotient can lose value.            *)
(***************************************************************************)
EXTENDS Integers, Sequences, FiniteSets, TLC

\* ---------------------------------------------------------------- bounds
MaxCycles == 2
MaxPollLen == 2

\* ------------------------------------------------- constants of the code
TimeoutSecs == 1800
PriceUpdateSecs == 30
TelegramUpdateSecs == 300
PriceCacheTtlSecs == 30
SolPriceCacheSecs == 300
FallbackSolPrice == 150
SimTokensPerSol == 1
UnixEpoch == 0 - 100000

\* --------------------------------------------------------------- settings
PositionSizeSol == 4
MinLiquiditySol == 10
MinAcceptableScore == 70
ProfitThresholdPercent == 50
SellPercentage == 75
StopLossPercent == 50
TrailingStopPercent == 30
MaxHoldTimeHours == 24
PriceCheckIntervalMs == 1000
FastPriceCheckIntervalMs == 100
AggressiveIntervalMs == 500
\* MAX_ACTIVE_POSITIONS, one position at a time
MaxPositions == 1

\* the configurations a run can be started with: a strict one that
\* notifies and a permissive one that does not
BotSettings(notify, strict, auto, interval_ms) ==
    [ notifications_enabled |-> notify,
      send_buy_alerts |-> TRUE,
      send_sell_alerts |-> TRUE,
      require_rugcheck_success |-> strict,
      enable_auto_trading |-> auto,
      position_size_sol |-> PositionSizeSol,
      min_liquidity_sol |-> MinLiquiditySol,
      min_acceptable_score |-> MinAcceptableScore,
      profit_threshold_percent |-> ProfitThresholdPercent,
      sell_percentage |-> SellPercentage,
      stop_loss_percent |-> StopLossPercent,
      trailing_stop_percent |-> TrailingStopPercent,
      max_hold_time_hours |-> MaxHoldTimeHours,
      max_positions |-> MaxPositions,
      price_check_interval_ms |-> interval_ms ]

SettingsSet ==
    { BotSettings(TRUE, TRUE, FALSE, PriceCheckIntervalMs),
      BotSettings(FALSE, FALSE, TRUE, FastPriceCheckIntervalMs) }

\* ------------------------------------------------- the upstream's answers
VARIABLES
    settings,          \* BotSettings, fixed at construction
    scenario           \* what the upstream services do during this run

\* The services are explored in four kinds of run, so that each part of the
\* lifecycle meets all the answers that matter to it:
\*   "entry"     every pool, every answer of the security check and of the
\*               buy; no valuation is repriced and nothing is held for long
\*   "exit"      positions are held until the timeout, priced above the
\*               take-profit threshold or not at all; the sell can fail
\*   "valuation" positions are repriced with rising, falling and missing
\*               prices
\*   "dust"      the quote of a buy can promise no token at all
Scenarios == {"entry", "exit", "valuation", "dust"}

Tokens == {"tokA", "tokB"}

\* NewPool records the discovery sources can return
NewPool(pa, ta, liq, dex) ==
    [pool_address |-> pa, token_address |-> ta, liquidity_sol |-> liq, dex |-> dex]

PoolA == NewPool("poolA", "tokA", 12, "DexScreener")
PoolB == NewPool("poolB", "tokB", 12, "DexScreener")
PoolC == NewPool("poolC", "tokB", 9, "DexScreener")
PoolS == NewPool("sample-1", "tokA", 25, "Sample")

DexPools ==
    IF scenario = "entry" THEN {PoolA, PoolB, PoolC}
    ELSE IF scenario = "dust" THEN {PoolA}
    ELSE {PoolA, PoolB}
SamplePools == {PoolS}

PoolIds == {p.pool_address : p \in {PoolA, PoolB, PoolC, PoolS}}

\* token amounts a quote can promise, prices DexScreener can report,
\* SOL prices CoinGecko can report
TokensOut == IF scenario = "dust" THEN {0, 2} ELSE {2}
Prices == {150, 300, 450}
SolPrices == {150}

\* answers of the services: NoAnswer is a transport or parse failure
NoAnswer == 0 - 1
PriceAnswers ==
    IF scenario = "valuation" THEN Prices \cup {NoAnswer}
    ELSE IF scenario = "exit" THEN {450, NoAnswer}
    ELSE IF scenario = "dust" THEN {150, NoAnswer}
    ELSE {NoAnswer}
SolPriceAnswers == SolPrices
BuyOk == [kind : {"ok"}, tokens : TokensOut]
BuyAnswers ==
    IF scenario = "entry"
    THEN BuyOk \cup [kind : {"api_error", "error"}, tokens : {0}]
    ELSE BuyOk
SellAnswers == {"ok", "error"}

\* evaluate_auto_buy_criteria on a pair record: the score is 100 when all six
\* criteria pass and 0 otherwise, every failed criterion is a HIGH risk
EvaluateAutoBuyCriteria(all_criteria_passed) ==
    [ kind |-> "ok", pairs |-> TRUE,
      score |-> IF all_criteria_passed THEN 100 ELSE 0,
      risks |-> IF all_criteria_passed THEN {} ELSE {"HIGH"} ]

\* generate_test_scenario, which evaluate_auto_buy_criteria returns when the
\* data has no pair records; roll is rng.gen_range(1..=10)
TestRolls == 1..10
GenerateTestScenario(roll) ==
    [ kind |-> "ok", pairs |-> FALSE,
      score |-> IF roll \in 1..2 THEN 100 ELSE 0,
      risks |-> IF roll \in 1..2 THEN {}
                ELSE IF roll \in 3..8 THEN {"HIGH"}
                ELSE {"CRITICAL", "HIGH"} ]

\* check_token: Err when the request fails, else the evaluation
RugError == [kind |-> "error", pairs |-> FALSE, score |-> 0, risks |-> {}]
RugPass == EvaluateAutoBuyCriteria(TRUE)
RugAnswers ==
    IF scenario = "entry"
    THEN {RugError}
            \cup {EvaluateAutoBuyCriteria(b) : b \in BOOLEAN}
            \cup {GenerateTestScenario(roll) : roll \in TestRolls}
    ELSE {RugPass}

\* add_position takes the simulated branch for an address shorter than 32
\* characters or containing "Sample"; the sources return base58 addresses of
\* 32 to 44 characters, and the sample alphabet has no letter l
IsSimulatedAddress(token_address) == token_address \notin Tokens

Max2(a, b) == IF a >= b THEN a ELSE b
Min2(a, b) == IF a <= b THEN a ELSE b

\* ------------------------------------------------ f64 beyond the numbers
\* what a division by 0.0 and what 0.0 * infinity give; the amounts of the
\* model stay far inside the two
F64Inf == 1000000000
F64NaN == 0 - 1000000000
\* sol_amount / tokens as f64
F64Div(a, b) == IF b = 0 THEN F64Inf ELSE a \div b
\* entry_price * sol_price
F64Mul(a, b) == IF a = F64Inf THEN F64Inf ELSE a * b
\* (tokens as f64 * price_usd) / sol_price
F64Value(tokens, price_usd, sol_price) ==
    IF price_usd = F64Inf
    THEN IF tokens = 0 THEN F64NaN ELSE F64Inf
    ELSE (tokens * price_usd) \div sol_price
\* f64::max and f64::min, which return the other operand for a NaN
F64Max(a, b) == IF a = F64NaN THEN b ELSE IF b = F64NaN THEN a ELSE Max2(a, b)
F64Min(a, b) == IF a = F64NaN THEN b ELSE IF b = F64NaN THEN a ELSE Min2(a, b)
\* a <= b on f64, false when either is a NaN
F64Le(a, b) == a # F64NaN /\ b # F64NaN /\ a <= b

\* the orders in which a HashMap can hand out its keys
Perms(S) == {q \in [1..Cardinality(S) -> S] : \A i, j \in DOMAIN q : q[i] = q[j] => i = j}

\* ------------------------------------------------ HashMap<String, V> as a
\* set of values that carry their key in token_address
HashMapKeys(m) == {v.token_address : v \in m}
HashMapRemove(m, k) == {v \in m : v.token_address # k}
\* a map that keeps the old value beside the new one
HashMapInsertKeepOld(m, k, v) == m \cup {v}
HashMapInsert(m, k, v) == HashMapRemove(m, k) \cup {v}
HashMapGet(m, k) == CHOOSE v \in m : v.token_address = k

\* ------------------------------------------------------- ProfitMonitor
\* a partial map Tokens -> V is a function on a subset of Tokens
MapPut(f, k, v) == [x \in DOMAIN f \cup {k} |-> IF x = k THEN v ELSE f[x]]
MapDel(f, k) == [x \in DOMAIN f \ {k} |-> f[x]]
EmptyMap == [x \in {} |-> 0]

ProfitMonitorNew ==
    [ profit_data |-> EmptyMap,
      price_cache |-> EmptyMap,
      sol_price_usd |-> 0,
      last_sol_price_update |-> UnixEpoch,
      last_telegram_update |-> 0,
      is_monitoring |-> FALSE,
      last_price_update |-> 0 ]

\* get_sol_price: the cached price while it is fresh, else the API's answer,
\* else the stale cached price, else the estimate
GetSolPrice(pm, now, sa) ==
    IF now - pm.last_sol_price_update < SolPriceCacheSecs /\ pm.sol_price_usd > 0
    THEN [pm |-> pm, price |-> pm.sol_price_usd]
    ELSE IF sa # NoAnswer
    THEN [pm |-> [pm EXCEPT !.sol_price_usd = sa, !.last_sol_price_update = now],
          price |-> sa]
    ELSE IF pm.sol_price_usd > 0
    THEN [pm |-> pm, price |-> pm.sol_price_usd]
    ELSE [pm |-> pm, price |-> FallbackSolPrice]

\* a get_token_price that stamps the cache entry it falls back on
GetTokenPriceStamped(pm, token_address, now, pa) ==
    IF /\ token_address \in DOMAIN pm.price_cache
       /\ now - pm.price_cache[token_address].time < PriceCacheTtlSecs
    THEN [pm |-> pm, ok |-> TRUE, price |-> pm.price_cache[token_address].price,
          upstream |-> FALSE]
    ELSE IF pa # NoAnswer
    THEN [pm |-> [pm EXCEPT !.price_cache =
                     MapPut(@, token_address, [price |-> pa, time |-> now])],
          ok |-> TRUE, price |-> pa, upstream |-> TRUE]
    ELSE IF token_address \in DOMAIN pm.price_cache
    THEN [pm |-> [pm EXCEPT !.price_cache[token_address].time = now],
          ok |-> TRUE, price |-> pm.price_cache[token_address].price,
          upstream |-> TRUE]
    ELSE [pm |-> pm, ok |-> FALSE, price |-> 0, upstream |-> TRUE]
\* get_token_price
GetTokenPrice(pm, token_address, now, pa) ==
    IF /\ token_address \in DOMAIN pm.price_cache
       /\ now - pm.price_cache[token_address].time < PriceCacheTtlSecs
    THEN [pm |-> pm, ok |-> TRUE, price |-> pm.price_cache[token_address].price,
          upstream |-> FALSE]
    ELSE IF pa # NoAnswer
    THEN [pm |-> [pm EXCEPT !.price_cache =
                     MapPut(@, token_address, [price |-> pa, time |-> now])],
          ok |-> TRUE, price |-> pa, upstream |-> TRUE]
    ELSE IF token_address \in DOMAIN pm.price_cache
    THEN [pm |-> pm, ok |-> TRUE, price |-> pm.price_cache[token_address].price,
          upstream |-> TRUE]
    ELSE [pm |-> pm, ok |-> FALSE, price |-> 0, upstream |-> TRUE]

\* the price cache's entry for a token, NoEntry when it has none
NoEntry == [price |-> NoAnswer, time |-> UnixEpoch]
CacheEntry(pm, token_address) ==
    IF token_address \in DOMAIN pm.price_cache THEN pm.price_cache[token_address]
    ELSE NoEntry

\* the history's record of one get_token_price call: the cache entry before
\* and after it, whether it asked upstream and with what answer, and its
\* result tp
PriceCall(pm, token_address, now, pa, tp) ==
    [ token_address |-> token_address,
      time |-> now,
      before |-> CacheEntry(pm, token_address),
      after |-> CacheEntry(tp.pm, token_address),
      upstream |-> tp.upstream,
      answer |-> IF tp.upstream THEN pa ELSE NoAnswer,
      ok |-> tp.ok,
      price |-> tp.price ]

\* a high-water mark that follows the current value down
HighWaterLast(highest_value, current_value_sol) == current_value_sol
\* the watermark updates of update_all_prices
HighWater(highest_value, current_value_sol) == F64Max(highest_value, current_value_sol)
LowWater(lowest_value, current_value_sol) == F64Min(lowest_value, current_value_sol)

\* a high-water mark that starts at the first value alone
InitialHighOfValue(current_value_sol, sol_amount) == current_value_sol
\* the watermarks add_position starts a valuation with
InitialHigh(current_value_sol, sol_amount) == F64Max(current_value_sol, sol_amount)
InitialLow(current_value_sol, sol_amount) == F64Min(current_value_sol, sol_amount)

\* add_position, on a scanner state s; pa and sa are the answers of the
\* token-price and SOL-price services during the call
AddPosition(s, position, now, pa, sa) ==
    LET pm0 == s.profit_monitor
        ta == position.token_address
    IN  IF ta \in DOMAIN pm0.profit_data THEN s
        ELSE
        LET tp == IF IsSimulatedAddress(ta)
                  THEN [pm |-> pm0, ok |-> FALSE, price |-> 0, upstream |-> FALSE]
                  ELSE GetTokenPrice(pm0, ta, now, pa)
            sp == GetSolPrice(tp.pm, now, sa)
            pm1 == sp.pm
            sol_price == sp.price
            current_price_usd == IF tp.ok THEN tp.price
                                 ELSE F64Mul(position.entry_price, sol_price)
            current_value_sol ==
                F64Value(position.estimated_tokens, current_price_usd, sol_price)
            data ==
                [ token_address |-> ta,
                  current_price_usd |-> current_price_usd,
                  current_value_sol |-> current_value_sol,
                  entry_value_sol |-> position.sol_amount,
                  pnl_sol |-> IF current_value_sol = F64NaN THEN F64NaN
                              ELSE current_value_sol - position.sol_amount,
                  pnl_percentage |->
                      IF current_value_sol = F64NaN THEN F64NaN
                      ELSE ((current_value_sol - position.sol_amount) * 100)
                              \div position.sol_amount,
                  tokens_held |-> position.estimated_tokens,
                  last_updated |-> now,
                  highest_value |-> InitialHigh(current_value_sol, position.sol_amount),
                  lowest_value |-> InitialLow(current_value_sol, position.sol_amount),
                  time_held |-> now - position.purchase_time ]
        IN  [s EXCEPT
               !.profit_monitor = [pm1 EXCEPT !.profit_data = MapPut(@, ta, data)],
               !.observed = MapPut(@, ta, {current_value_sol}),
               !.price_calls = IF IsSimulatedAddress(ta) THEN @
                               ELSE @ \cup {PriceCall(pm0, ta, now, pa, tp)}]

\* remove_position
RemovePosition(s, token_address) ==
    [s EXCEPT !.profit_monitor.profit_data = MapDel(@, token_address),
              !.observed = MapDel(@, token_address)]

\* one iteration of the loop of update_all_prices
UpdateOnePrice(data, current_price_usd, sol_price, now) ==
    LET current_value_sol == (data.tokens_held * current_price_usd) \div sol_price
        pnl_sol == current_value_sol - data.entry_value_sol
    IN  [data EXCEPT
           !.current_price_usd = current_price_usd,
           !.current_value_sol = current_value_sol,
           !.pnl_sol = pnl_sol,
           !.pnl_percentage = (pnl_sol * 100) \div data.entry_value_sol,
           !.last_updated = now,
           !.highest_value = HighWater(@, current_value_sol),
           !.lowest_value = LowWater(@, current_value_sol)]

\* the addresses the loop of update_all_prices goes on with after a price
\* that could not be fetched: a loop that gives up at the first failure
RestAfterPriceErrNone(token_addresses) == << >>
\* the Err arm only prints, the loop takes the next address
RestAfterPriceErr(token_addresses) == Tail(token_addresses)

\* the loop of update_all_prices over token_addresses; pas maps every
\* monitored token to the answer of the price service for it.  The history
\* s.fetches keeps, for every token whose price was asked upstream, the
\* answer and the valuation before the iteration.
RECURSIVE PriceLoop(_, _, _, _, _)
PriceLoop(s, token_addresses, now, pas, sol_price) ==
    IF token_addresses = << >> THEN s
    ELSE LET t == Head(token_addresses)
             before == s.profit_monitor.profit_data[t]
             tp == GetTokenPrice(s.profit_monitor, t, now, pas[t])
             s1 == [s EXCEPT
                      !.profit_monitor = tp.pm,
                      !.fetches = IF tp.upstream
                                  THEN MapPut(@, t, [answer |-> pas[t], before |-> before])
                                  ELSE @,
                      !.price_calls =
                          @ \cup {PriceCall(s.profit_monitor, t, now, pas[t], tp)}]
         IN  IF tp.ok
             THEN LET data == UpdateOnePrice(before, tp.price, sol_price, now)
                  IN  PriceLoop([s1 EXCEPT
                                   !.profit_monitor.profit_data = MapPut(@, t, data),
                                   !.observed = MapPut(@, t, @[t] \cup {data.current_value_sol}),
                                   !.refreshed = @ \cup {t}],
                                Tail(token_addresses), now, pas, sol_price)
             ELSE PriceLoop(s1, RestAfterPriceErr(token_addresses), now, pas, sol_price)

\* update_all_prices; the key set is collected in the order the HashMap
\* hands it out
UpdateAllPrices(s, now, pas, sa) ==
    LET sp == GetSolPrice(s.profit_monitor, now, sa)
        s1 == [s EXCEPT !.profit_monitor = sp.pm]
    IN  { PriceLoop(s1, token_addresses, now, pas, sp.price) :
            token_addresses \in Perms(DOMAIN sp.pm.profit_data) }

\* ----------------------------------------------------------- variables
VARIABLES
    processed_pools,   \* PoolScanner.processed_pools
    active_positions,  \* PoolScanner.active_positions
    profit_monitor,    \* PoolScanner.profit_monitor
    now,               \* SystemTime::now()
    pc,                \* position of start_continuous_scan in its loop body
    cycle,             \* iterations of the loop completed
    new_pools,         \* the Vec<NewPool> the current scan returned
    pool_idx,          \* next element of new_pools the for loop takes
    poll_raw,          \* history: what the sources returned to the last scan
    eval_cycles,       \* history: pool id -> cycles that gave it to process_new_pool
    observed,          \* history: token -> values computed for its valuation
    refreshed,         \* history: tokens the last update_all_prices revalued
    fetches,           \* history: token -> upstream answer and valuation before it
    notes,             \* history: Telegram sends of the last step
    buys,              \* history: execute_purchase calls of the last step
    sells,             \* history: execute_auto_sell calls of the last step
    gate,              \* history: decision of the last process_new_pool
    due,               \* history: positions the last timeout check found expired
    failed_pools,      \* history: pools whose process_new_pool returned Err
    poll_err,          \* history: DexScreener failed in this cycle's poll
    polled,            \* history: DexScreener's answer to the last scan and
                       \*          the sources the scan consulted, in order
    slept,             \* history: what the last step, if it ended an
                       \*          iteration, decided about its sleep
    price_calls        \* history: the get_token_price calls of the last step

vars == << settings, scenario, processed_pools, active_positions, profit_monitor,
           now, pc, cycle, new_pools, pool_idx, poll_raw,
           eval_cycles, observed, refreshed, fetches, notes, buys, sells, gate,
           due, failed_pools, poll_err, polled, slept, price_calls >>

\* the history's record of a process_new_pool that has not run
NoDecision ==
    [pool_address |-> "", decision |-> "none", rugcheck |-> "none", score |-> 0,
     result |-> "ok"]

\* the history's record of a step that did not end an iteration
NoSleep ==
    [ran |-> FALSE, found_new_pools |-> FALSE, scan_duration |-> 0,
     target_interval |-> 0, sleep_ms |-> 0]

\* the part of the state the handlers work on, with empty logs
Cur(up) ==
    [ telegram_up |-> up,
      active_positions |-> active_positions,
      profit_monitor |-> profit_monitor,
      observed |-> observed,
      refreshed |-> {},
      fetches |-> EmptyMap,
      notes |-> << >>,
      buys |-> << >>,
      sells |-> << >>,
      gate |-> NoDecision,
      due |-> {},
      slept |-> NoSleep,
      price_calls |-> {} ]

Commit(s) ==
    /\ active_positions' = s.active_positions
    /\ profit_monitor' = s.profit_monitor
    /\ observed' = s.observed
    /\ refreshed' = s.refreshed
    /\ fetches' = s.fetches
    /\ notes' = s.notes
    /\ buys' = s.buys
    /\ sells' = s.sells
    /\ gate' = s.gate
    /\ due' = s.due
    /\ slept' = s.slept
    /\ price_calls' = s.price_calls

BoundedSeqs(S, n) == UNION {[1..k -> S] : k \in 0..n}

\* ------------------------------------------------------------ Telegram
\* a send_message that sends a failed message a second time
SendMessageRetried(s, kind) ==
    LET note == [kind |-> kind, ok |-> s.telegram_up]
    IN  { [s |-> [s EXCEPT !.notes = IF s.telegram_up THEN Append(@, note)
                                     ELSE Append(Append(@, note), note)],
           ok |-> s.telegram_up] }
\* TelegramNotifier::send_message with a configured chat id: the message is
\* delivered or the call returns Err.  Telegram is reachable or not for the
\* whole of one handler (s.telegram_up).
SendMessage(s, kind) ==
    { [s |-> [s EXCEPT !.notes = Append(@, [kind |-> kind, ok |-> s.telegram_up])],
       ok |-> s.telegram_up] }

\* a send whose error the caller only prints
SendAndLog(s, kind) == {r.s : r \in SendMessage(s, kind)}

\* ------------------------------------- ProfitMonitor, monitoring cycle
\* send_telegram_update, as called by update_monitoring_cycle
SendTelegramUpdate(s) ==
    IF ~settings.notifications_enabled \/ DOMAIN s.profit_monitor.profit_data = {}
    THEN {s}
    ELSE SendAndLog(s, "PortfolioUpdate")

\* update_monitoring_cycle (the portfolio summary only appends to a log)
UpdateMonitoringCycle(s, now_) ==
    LET priced ==
            IF now_ - s.profit_monitor.last_price_update > PriceUpdateSecs
            THEN UNION { { [s1 EXCEPT !.profit_monitor.last_price_update = now_] :
                             s1 \in UpdateAllPrices(s, now_, pas, sa) } :
                     pas \in [DOMAIN s.profit_monitor.profit_data -> PriceAnswers],
                     sa \in SolPriceAnswers }
            ELSE {s}
        told(s1) ==
            IF now_ - s1.profit_monitor.last_telegram_update > TelegramUpdateSecs
            THEN { [s2 EXCEPT !.profit_monitor.last_telegram_update = now_] :
                     s2 \in SendTelegramUpdate(s1) }
            ELSE {s1}
    IN  UNION {told(s1) : s1 \in priced}

\* the loop of start_monitoring over the positions without a valuation
RECURSIVE AddMissing(_, _, _)
AddMissing(s, todo, now_) ==
    IF todo = {} THEN {s}
    ELSE LET position == CHOOSE p \in todo : TRUE
         IN  UNION { AddMissing(AddPosition(s, position, now_, pa, sa),
                                todo \ {position}, now_) :
                       pa \in PriceAnswers, sa \in SolPriceAnswers }

\* start_monitoring
StartMonitoring(s, positions, now_) ==
    LET s1 == [s EXCEPT !.profit_monitor.is_monitoring = TRUE]
        missing == {p \in positions :
                      p.token_address \notin DOMAIN s1.profit_monitor.profit_data}
    IN  UNION {UpdateMonitoringCycle(s2, now_) : s2 \in AddMissing(s1, missing, now_)}

\* --------------------------------------------------------- PoolScanner
\* start_profit_monitoring
StartProfitMonitoring(s, now_) ==
    IF s.active_positions # {} /\ ~s.profit_monitor.is_monitoring
    THEN StartMonitoring(s, s.active_positions, now_)
    ELSE {s}

\* the test execute_purchase applies to the message of a failed buy_token:
\* it contains "Jupiter", "API" or "dns error"
IsJupiterApiError(kind) == kind = "api_error"

\* the TokenPosition execute_purchase builds
TokenPosition(token_address, now_, sol_amount, tokens, real) ==
    [ token_address |-> token_address,
      purchase_time |-> now_,
      sol_amount |-> sol_amount,
      estimated_tokens |-> tokens,
      entry_price |-> F64Div(sol_amount, tokens),
      trade_result |-> [some |-> real, tokens_received |-> IF real THEN tokens ELSE 0] ]

\* the tail of both arms of execute_purchase that create a position: insert
\* it, hand it to the profit monitor, start monitoring on the first position
TrackPosition(s, position, now_) ==
    LET s1 == [s EXCEPT !.active_positions =
                            HashMapInsert(@, position.token_address, position)]
        added == { AddPosition(s1, position, now_, pa, sa) :
                     pa \in PriceAnswers, sa \in SolPriceAnswers }
    IN  UNION { IF ~s2.profit_monitor.is_monitoring
                THEN StartProfitMonitoring(s2, now_)
                ELSE {s2} : s2 \in added }

\* the simulated position of the Err arm of execute_purchase
SimulatedPosition(token_address, now_) ==
    TokenPosition(token_address, now_, settings.position_size_sol,
                  settings.position_size_sol * SimTokensPerSol, FALSE)

\* an Err arm that tracks the simulated position before it looks at the
\* error, and so also when it returns the error
PurchaseErrTracked(s, token_address, now_, kind) ==
    { [s |-> s2, ok |-> IsJupiterApiError(kind)] :
        s2 \in TrackPosition(s, SimulatedPosition(token_address, now_), now_) }
\* the Err arm of execute_purchase: an API failure is replaced by a
\* simulated position and Ok, any other error is returned untouched
PurchaseErr(s, token_address, now_, kind) ==
    IF IsJupiterApiError(kind)
    THEN { [s |-> s2, ok |-> TRUE] :
             s2 \in TrackPosition(s, SimulatedPosition(token_address, now_), now_) }
    ELSE { [s |-> s, ok |-> FALSE] }

\* execute_purchase; ba is the answer of JupiterTrader::buy_token
ExecutePurchaseBody(s, token_address, now_, ba) ==
    LET sol_amount == settings.position_size_sol
    IN  IF ba.kind = "ok"
        THEN LET position == TokenPosition(token_address, now_, sol_amount,
                                           ba.tokens, TRUE)
             IN  UNION { { [s |-> s3, ok |-> TRUE] :
                             s3 \in IF settings.notifications_enabled
                                       /\ settings.send_buy_alerts
                                    THEN SendAndLog(s2, "BuyAlert")
                                    ELSE {s2} } :
                           s2 \in TrackPosition(s, position, now_) }
        ELSE PurchaseErr(s, token_address, now_, ba.kind)

\* execute_purchase with its call recorded in the history: the answer of
\* the buy, whether the token had a position before the call, and whether
\* the call changed the position store or the valuation table
ExecutePurchase(s, token_address, now_, ba) ==
    { [r EXCEPT !.s.buys = Append(@,
          [ token_address |-> token_address,
            kind |-> ba.kind,
            sol_amount |-> settings.position_size_sol,
            ok |-> r.ok,
            had_position |-> token_address \in HashMapKeys(s.active_positions),
            store_changed |-> r.s.active_positions # s.active_positions,
            valuation_changed |->
                r.s.profit_monitor.profit_data # s.profit_monitor.profit_data ])] :
        r \in ExecutePurchaseBody(s, token_address, now_, ba) }

\* a message process_new_pool sends when notifications are enabled, with `?`
Notify(s, kind) ==
    IF settings.notifications_enabled
    THEN SendMessage(s, kind)
    ELSE { [s |-> s, ok |-> TRUE] }

\* the `?` of process_new_pool: an Err makes process_new_pool return it
Try(r) == IF r.ok THEN r.s ELSE [r.s EXCEPT !.gate.result = "err"]

\* Step 3 of process_new_pool: the purchase and what follows it
PurchaseStep(s, pool, now_) ==
    LET ta == pool.token_address
        first == UNION {ExecutePurchase(s, ta, now_, ba) : ba \in BuyAnswers}
        after(r) ==
            IF r.ok
            THEN UNION { IF n.ok
                         THEN UNION { {Try(r2) : r2 \in ExecutePurchase(n.s, ta, now_, ba)} :
                                        ba \in BuyAnswers }
                         ELSE {Try(n)} : n \in Notify(r.s, "NewPurchase") }
            ELSE {Try(n) : n \in Notify(r.s, "PurchaseFailed")}
    IN  UNION {after(r) : r \in first}

\* analyze_security_risks: the findings of severity CRITICAL or HIGH
CriticalRisks(response) == {r \in response.risks : r \in {"CRITICAL", "HIGH"}}

\* process_new_pool, with its decision recorded in the history: the pool,
\* the outcome, what the security check answered and the score of the
\* security report the purchase goes on with
Decided(s, pool, decision, checked, score) ==
    [s EXCEPT !.gate = [pool_address |-> pool.pool_address,
                        decision |-> decision, rugcheck |-> checked,
                        score |-> score, result |-> "ok"]]

\* Step 1 of process_new_pool with the comparison turned around
LiquidityTooLowInverted(pool) == pool.liquidity_sol > settings.min_liquidity_sol
\* Step 1 of process_new_pool
LiquidityTooLow(pool) == pool.liquidity_sol < settings.min_liquidity_sol

\* a security check failure that is let through whatever the mode
RugcheckErrorAlwaysProceeds == TRUE
\* whether process_new_pool goes on after a failed security check
RugcheckErrorProceeds == ~settings.require_rugcheck_success

\* the score of the report process_new_pool builds in place of the failed
\* security check
FallbackScore == settings.min_acceptable_score

\* what the history keeps of a security check that answered: "ok" when it
\* evaluated pair records, "no_data" when there were none
Checked(response) == IF response.pairs THEN "ok" ELSE "no_data"

\* a score test that lets every score through
ScoreTooLowNever(response) == FALSE
\* the minimum score test of process_new_pool
ScoreTooLow(response) == response.score < settings.min_acceptable_score

ProcessNewPool(s, pool, now_) ==
    IF LiquidityTooLow(pool)
    THEN { Decided(s, pool, "low_liquidity", "none", 0) }
    ELSE UNION {
        IF response.kind = "ok"
        THEN IF ScoreTooLow(response)
             THEN {Try(n) : n \in Notify(Decided(s, pool, "low_score", Checked(response),
                                              response.score),
                                      "Rejected")}
             ELSE IF CriticalRisks(response) # {}
             THEN { Decided(s, pool, "critical_risk", Checked(response), response.score) }
             ELSE PurchaseStep(Decided(s, pool, "accept", Checked(response),
                                       response.score),
                               pool, now_)
        ELSE IF RugcheckErrorProceeds
             THEN PurchaseStep(Decided(s, pool, "accept", "error", FallbackScore),
                               pool, now_)
             ELSE { Decided(s, pool, "rugcheck_error", "error", 0) }
        : response \in RugAnswers }

\* execute_auto_sell; sa is the answer of JupiterTrader::sell_token
ExecuteAutoSell(s, position, sa) ==
    LET logged == [s EXCEPT !.sells =
                      Append(@, [token_address |-> position.token_address,
                                 amount |-> position.estimated_tokens,
                                 ok |-> sa = "ok"])]
    IN  IF sa = "ok"
        THEN { [s |-> RemovePosition(s2, position.token_address), ok |-> TRUE] :
                 s2 \in IF settings.notifications_enabled /\ settings.send_sell_alerts
                        THEN SendAndLog(logged, "SellAlert")
                        ELSE {logged} }
        ELSE { [s |-> logged, ok |-> FALSE] }

\* the positions monitor_position_timeouts collects
TimedOut(positions, current_time) ==
    {p \in positions : current_time - p.purchase_time >= TimeoutSecs}

\* a position that stays in the store while its sell is attempted
TakeForSaleKept(s, token_address) == s
\* `self.active_positions.remove(&token_address)`, ahead of the sell
TakeForSale(s, token_address) ==
    [s EXCEPT !.active_positions = HashMapRemove(@, token_address)]

\* the second loop of monitor_position_timeouts over positions_to_sell
RECURSIVE SellLoop(_, _)
SellLoop(s, positions_to_sell) ==
    IF positions_to_sell = << >> THEN {s}
    ELSE LET token_address == Head(positions_to_sell)
         IN  IF token_address \notin HashMapKeys(s.active_positions)
             THEN SellLoop(s, Tail(positions_to_sell))
             ELSE LET position == HashMapGet(s.active_positions, token_address)
                      s1 == TakeForSale(s, token_address)
                  IN  UNION { UNION { IF r.ok
                                      THEN SellLoop(r.s, Tail(positions_to_sell))
                                      ELSE {r.s} :
                                        r \in ExecuteAutoSell(s1, position, sa) } :
                                sa \in SellAnswers }

\* monitor_position_timeouts; the HashMap iterates in an arbitrary order
MonitorPositionTimeouts(s, now_) ==
    LET expired == TimedOut(s.active_positions, now_)
        s1 == [s EXCEPT !.due = expired]
    IN  UNION {SellLoop(s1, order) : order \in Perms(HashMapKeys(expired))}

\* update_profit_monitoring
UpdateProfitMonitoring(s, now_) ==
    IF s.active_positions # {}
    THEN StartMonitoring(s, s.active_positions, now_)
    ELSE {s}

\* a scan that adds the sample data to what DexScreener returned
ScanPumpfunPoolsMerged(dex, rand, sample) == dex.pools \o sample
\* scan_pumpfun_pools: DexScreener first, then on-chain monitoring (always
\* empty), then sample data; dex is DexScreener's answer, rand the outcome
\* of rand::random::<f64>() < 0.1, sample what generate_sample_tokens makes
ScanPumpfunPools(dex, rand, sample) ==
    IF dex.ok /\ dex.pools # << >> THEN dex.pools
    ELSE IF settings.enable_auto_trading /\ rand THEN sample
    ELSE << >>

\* the sources scan_pumpfun_pools calls, in the order of the calls (the
\* Jupiter source is behind `if false`)
SourcesConsulted(dex, rand) ==
    IF dex.ok /\ dex.pools # << >> THEN << "DexScreener" >>
    ELSE IF settings.enable_auto_trading /\ rand
         THEN << "DexScreener", "OnChain", "Sample" >>
         ELSE << "DexScreener", "OnChain" >>

\* the history's record when the last step was not a scan
NoPoll == [dex |-> [ok |-> TRUE, pools |-> << >>], sources |-> << >>]

\* a filter that lets every pool through
FilterNothing(pools, processed) == pools
\* the filter of scan_for_new_pools
FilterProcessed(pools, processed) ==
    SelectSeq(pools, LAMBDA pool : pool.pool_address \notin processed)

SeqRange(q) == {q[i] : i \in DOMAIN q}

\* a loop over the new pools that gives the batch up at the first Err
PoolErrEndsBatchAlways(last) == TRUE
\* `if let Err(e) = self.process_new_pool(pool).await { println!(..) }`: the
\* batch ends after an Err only if the pool was its last
PoolErrEndsBatch(last) == last

\* ------------------------------------------------------------- actions
\* the iterations past MaxCycles, which only the specification with
\* fairness has: discovery answers, finds nothing new and draws no sample
\* data, so that the positions of the run can be followed to their end
Draining == cycle > MaxCycles
DrainCycles == Cardinality(Tokens)

DexAnswers ==
    IF Draining THEN { [ok |-> TRUE, pools |-> << >>] }
    ELSE { [ok |-> FALSE, pools |-> << >>] }
            \cup { [ok |-> TRUE, pools |-> q] : q \in BoundedSeqs(DexPools, MaxPollLen) }
\* the outcomes of `rand::random::<f64>() < 0.1`
RandAnswers == IF Draining THEN {FALSE} ELSE BOOLEAN
SampleAnswers == [1..1 -> SamplePools]

\* the time that passes between two iterations of the loop
SleepSecs == IF scenario = "exit" THEN {600, 1800} ELSE {31}

\* what scan_start.elapsed() can be at the end of an iteration, in ms
ScanDurations == {200, 700}

\* target_interval of start_continuous_scan, in ms
TargetInterval(found_new_pools) ==
    IF found_new_pools THEN AggressiveIntervalMs
    ELSE settings.price_check_interval_ms

\* the time the loop sleeps, in ms
SleepMs(scan_duration, target_interval) ==
    IF scan_duration < target_interval THEN target_interval - scan_duration ELSE 0

\* whether Telegram is reachable matters only when notifications are on
TelegramAnswers == IF settings.notifications_enabled THEN BOOLEAN ELSE {TRUE}

Init ==
    /\ settings \in SettingsSet
    /\ scenario \in Scenarios
    /\ processed_pools = {}
    /\ active_positions = {}
    /\ profit_monitor = ProfitMonitorNew
    /\ now = 0
    /\ pc = "scan"
    /\ cycle = 1
    /\ new_pools = << >>
    /\ pool_idx = 1
    /\ poll_raw = << >>
    /\ eval_cycles = [id \in PoolIds |-> {}]
    /\ observed = EmptyMap
    /\ refreshed = {}
    /\ fetches = EmptyMap
    /\ notes = << >>
    /\ buys = << >>
    /\ sells = << >>
    /\ gate = NoDecision
    /\ due = {}
    /\ failed_pools = {}
    /\ poll_err = FALSE
    /\ polled = NoPoll
    /\ slept = NoSleep
    /\ price_calls = {}

\* scan_for_new_pools (scan_raydium_pools and scan_orca_pools return nothing)
ScanForNewPools ==
    /\ pc = "scan"
    /\ \E dex \in DexAnswers, rand \in RandAnswers, sample \in SampleAnswers :
         LET raw == ScanPumpfunPools(dex, rand, sample)
             filtered_pools == FilterProcessed(raw, processed_pools)
         IN  /\ poll_raw' = raw
             /\ poll_err' = ~dex.ok
             /\ polled' = [dex |-> dex, sources |-> SourcesConsulted(dex, rand)]
             /\ new_pools' = filtered_pools
             /\ processed_pools' = processed_pools
                    \cup {pool.pool_address : pool \in SeqRange(filtered_pools)}
             /\ pc' = IF filtered_pools # << >> THEN "process" ELSE "timeouts"
    /\ pool_idx' = 1
    /\ Commit(Cur(TRUE))
    /\ UNCHANGED << settings, scenario, now, cycle, eval_cycles, failed_pools >>

\* one iteration of `for pool in new_pools { process_new_pool(pool) }`
ProcessPool ==
    /\ pc = "process"
    /\ LET pool == new_pools[pool_idx]
           last == pool_idx = Len(new_pools)
       IN  /\ \E up \in TelegramAnswers :
                 \E s \in ProcessNewPool(Cur(up), pool, now) :
                    /\ Commit(s)
                    /\ failed_pools' = IF s.gate.result = "err"
                                       THEN failed_pools \cup {pool.pool_address}
                                       ELSE failed_pools
                    /\ IF (IF s.gate.result = "err" THEN PoolErrEndsBatch(last) ELSE last)
                       THEN pc' = "timeouts" /\ new_pools' = << >> /\ pool_idx' = 1
                       ELSE /\ pc' = "process"
                            /\ new_pools' = new_pools
                            /\ pool_idx' = pool_idx + 1
           /\ eval_cycles' = [eval_cycles EXCEPT ![pool.pool_address] = @ \cup {cycle}]
    /\ poll_raw' = << >>
    /\ polled' = NoPoll
    /\ UNCHANGED << settings, scenario, processed_pools, now, cycle, poll_err >>

\* monitor_position_timeouts, whose error the loop only prints
Timeouts ==
    /\ pc = "timeouts"
    /\ \E up \in TelegramAnswers :
         \E s \in MonitorPositionTimeouts(Cur(up), now) : Commit(s)
    /\ pc' = "profit"
    /\ poll_raw' = << >>
    /\ polled' = NoPoll
    /\ UNCHANGED << settings, scenario, processed_pools, now, cycle, new_pools, pool_idx,
                    eval_cycles, failed_pools, poll_err >>

\* update_profit_monitoring, then monitor_existing_positions (which does
\* nothing)
ProfitMonitoring ==
    /\ pc = "profit"
    /\ \E up \in TelegramAnswers :
         \E s \in UpdateProfitMonitoring(Cur(up), now) : Commit(s)
    /\ pc' = "sleep"
    /\ UNCHANGED << settings, scenario, processed_pools, now, cycle, new_pools, pool_idx,
                    poll_raw, eval_cycles, failed_pools, poll_err, polled >>

\* the end of the iteration: the target interval is chosen, the loop sleeps
\* for what the scan left of it, and the clock has moved on when the next
\* iteration starts
EndIteration(secs) ==
    /\ pc = "sleep"
    /\ \E d \in secs : now' = now + d
    /\ cycle' = cycle + 1
    /\ pc' = "scan"
    /\ \E scan_duration \in ScanDurations :
         LET found_new_pools == \E id \in PoolIds : cycle \in eval_cycles[id]
             target_interval == TargetInterval(found_new_pools)
         IN  Commit([Cur(TRUE) EXCEPT !.slept =
                        [ran |-> TRUE, found_new_pools |-> found_new_pools,
                         scan_duration |-> scan_duration,
                         target_interval |-> target_interval,
                         sleep_ms |-> SleepMs(scan_duration, target_interval)]])
    /\ UNCHANGED << settings, scenario, processed_pools, new_pools, pool_idx, poll_raw,
                    eval_cycles, failed_pools, poll_err, polled >>

\* the end of one of the first MaxCycles iterations
Sleep == cycle < MaxCycles /\ EndIteration(SleepSecs)

Next == ScanForNewPools \/ ProcessPool \/ Timeouts \/ ProfitMonitoring \/ Sleep

Spec == Init /\ [][Next]_vars

\* the loop of start_continuous_scan is one task that never returns: each of
\* its steps is taken once it can be. Past MaxCycles the iterations are
\* TimeoutSecs apart.
Drain ==
    /\ cycle >= MaxCycles
    /\ cycle < MaxCycles + DrainCycles
    /\ EndIteration({TimeoutSecs})

LiveNext == Next \/ Drain

\* the runs in which positions are held across iterations
LiveInit == Init /\ scenario = "exit"

LiveSpec == LiveInit /\ [][LiveNext]_vars /\ WF_vars(LiveNext)

\* ------------------------------------------------------------ properties
SetMax(S) == CHOOSE x \in S : \A y \in S : y <= x
SetMin(S) == CHOOSE x \in S : \A y \in S : x <= y
ProfitData == profit_monitor.profit_data
SoldTokens == {sells[i].token_address : i \in DOMAIN sells}

\* C1: an insert for an asset that already has an open position is rejected
\* and the open position keeps its identity fields: no execute_purchase call
\* for a token that had a position changes the store, and a position whose
\* token stays in the store stays the same record.
C1_InsertRejected ==
    [][ /\ \A i \in DOMAIN buys' :
             buys'[i].had_position => ~buys'[i].store_changed
        /\ \A p \in active_positions :
             p.token_address \in HashMapKeys(active_positions')
                 => p \in active_positions' ]_vars

\* C2: the position store never holds two positions for one asset address.
C2_OnePositionPerAsset ==
    \A p, q \in active_positions : p.token_address = q.token_address => p = q

\* an asset that had a position was bought again and its record replaced
C2_Witness ==
    \E i \in DOMAIN buys :
        /\ buys[i].had_position
        /\ buys[i].store_changed
        /\ buys[i].token_address \in HashMapKeys(active_positions)

\* C3: a pool id is given to process_new_pool in at most one cycle, however
\* often later polls return it, and every evaluated id is in the seen set.
C3_Dedup ==
    \A id \in PoolIds :
        /\ Cardinality(eval_cycles[id]) <= 1
        /\ eval_cycles[id] # {} => id \in processed_pools

\* a poll has just returned a pool that an earlier cycle evaluated, and the
\* scan dropped it
C3_Witness ==
    \E i \in DOMAIN poll_raw :
        /\ eval_cycles[poll_raw[i].pool_address] # {}
        /\ cycle \notin eval_cycles[poll_raw[i].pool_address]
        /\ poll_raw[i] \notin SeqRange(new_pools)

\* C4: an accepted pool causes exactly one buy execution.
C4_ExactlyOneBuy == gate.decision = "accept" => Len(buys) = 1

\* C5 as stated: a buy that fails with any error leaves the position store
\* and the valuation table unchanged.
C5_AnyFailedBuyCreatesNothing ==
    \A i \in DOMAIN buys :
        buys[i].kind # "ok" => ~buys[i].store_changed /\ ~buys[i].valuation_changed

\* C5 amended: a buy whose error execute_purchase returns (one that is not
\* taken for a Jupiter API failure) leaves the position store and the
\* valuation table unchanged, and the pool's id is in the seen set.
C5_ReturnedErrorCreatesNothing ==
    \A i \in DOMAIN buys :
        ~buys[i].ok =>
            /\ ~buys[i].store_changed
            /\ ~buys[i].valuation_changed
            /\ gate.pool_address \in processed_pools

\* a buy has just failed with an error that execute_purchase returned
C5_Witness ==
    \E i \in DOMAIN buys : buys[i].kind = "error" /\ ~buys[i].ok

\* C6: every position whose held time has reached the timeout gets a sell
\* of all its units in that cycle's timeout check.
C6_TimeoutSellsAll ==
    \A p \in due :
        \E i \in DOMAIN sells :
            /\ sells[i].token_address = p.token_address
            /\ sells[i].amount = p.estimated_tokens

\* C7: a position whose sell failed is still in the position store.
C7_FailedSellStaysOpen ==
    \A i \in DOMAIN sells :
        ~sells[i].ok => sells[i].token_address \in HashMapKeys(active_positions)

\* C8: when the sell of one expired position fails, the other expired
\* positions still get their sell attempt in the same timeout check.
C8_OtherSellsStillAttempted ==
    (\E i \in DOMAIN sells : ~sells[i].ok)
        => \A p \in due : p.token_address \in SoldTokens

\* C9: at the end of every cycle the assets with a valuation are the assets
\* with an open position.
C9_ValuationsMatchPositions ==
    pc = "sleep" => DOMAIN ProfitData = HashMapKeys(active_positions)

\* C10 as stated: the watermarks are the maximum and the minimum of the
\* values computed for the valuation.
C10_WatermarksOfValues ==
    \A t \in DOMAIN ProfitData :
        /\ ProfitData[t].highest_value = SetMax(observed[t])
        /\ ProfitData[t].lowest_value = SetMin(observed[t])

\* the values of a set that are numbers
Numbers(S) == S \ {F64NaN}

\* C10 amended: the watermarks are the maximum and the minimum of the
\* invested amount and the values computed for the valuation that are
\* numbers.
C10_WatermarksOfEntryAndValues ==
    \A t \in DOMAIN ProfitData :
        /\ ProfitData[t].highest_value
               = SetMax(Numbers(observed[t]) \cup {ProfitData[t].entry_value_sol})
        /\ ProfitData[t].lowest_value
               = SetMin(Numbers(observed[t]) \cup {ProfitData[t].entry_value_sol})

\* a refresh has just revalued a position below a high-water mark that an
\* earlier value set above the invested amount
C10_Witness ==
    \E t \in refreshed :
        /\ Cardinality(observed[t]) >= 2
        /\ ProfitData[t].highest_value > ProfitData[t].entry_value_sol
        /\ ProfitData[t].current_value_sol < ProfitData[t].highest_value

\* C11: a token whose upstream price fetch failed during the last refresh
\* has the valuation it had before: price, value, PnL, watermarks and
\* last_updated.
C11_FailedFetchKeepsValuation ==
    \A t \in DOMAIN fetches :
        fetches[t].answer = NoAnswer /\ t \in DOMAIN ProfitData
            => ProfitData[t] = fetches[t].before

\* C12: when a price fetch of the last refresh failed, every monitored token
\* was still taken by that refresh, and every token the upstream answered
\* for carries the answered price and the time of the refresh.
C12_OtherAssetsStillRefreshed ==
    (\E u \in DOMAIN fetches : fetches[u].answer = NoAnswer)
        => \A t \in DOMAIN ProfitData :
              /\ t \in DOMAIN fetches \cup refreshed
              /\ t \in DOMAIN fetches /\ fetches[t].answer # NoAnswer
                    => /\ ProfitData[t].current_price_usd = fetches[t].answer
                       /\ ProfitData[t].last_updated = now

\* a refresh has just failed to price one token and has repriced another
C12_Witness ==
    \E u, t \in DOMAIN fetches :
        /\ fetches[u].answer = NoAnswer
        /\ u \notin refreshed
        /\ fetches[t].answer # NoAnswer
        /\ t \in refreshed
        /\ ProfitData[t] # fetches[t].before

\* the exit conditions of a position p with valuation d at current_time
HeldOut(p, current_time) == current_time - p.purchase_time >= TimeoutSecs
TakeProfitReached(d) == d.pnl_percentage >= settings.profit_threshold_percent
StopLossReached(d) == d.pnl_percentage <= 0 - settings.stop_loss_percent
DeclineFromHigh(d) ==
    ((d.highest_value - d.current_value_sol) * 100) \div d.highest_value
TrailingStopReached(d) == DeclineFromHigh(d) >= settings.trailing_stop_percent
SellsOf(token_address) ==
    {i \in DOMAIN sells : sells[i].token_address = token_address}

\* C13: a position that the timeout check finds expired while its valuation
\* is at or above the take-profit threshold gets exactly one sell in that
\* check, and the sell is for all of its units.
C13_TimeoutBeatsTakeProfit ==
    [][ \A p \in due' :
          ( /\ p.token_address \in DOMAIN ProfitData
            /\ TakeProfitReached(ProfitData[p.token_address]) )
          => \E i \in DOMAIN sells' :
                /\ sells'[i].token_address = p.token_address
                /\ sells'[i].amount = p.estimated_tokens
                /\ \A j \in DOMAIN sells' :
                      sells'[j].token_address = p.token_address => j = i ]_vars

\* C14: at the end of a cycle's exit evaluation (the timeout check, the
\* refresh and monitor_existing_positions), an open position that has not
\* timed out and whose PnL is at or above the take-profit threshold has a
\* sell of sell_percentage of its units.
C14_TakeProfitSellsPart ==
    pc = "sleep" =>
        \A p \in active_positions :
            ( /\ p.token_address \in DOMAIN ProfitData
              /\ ~HeldOut(p, now)
              /\ TakeProfitReached(ProfitData[p.token_address]) )
            => \E i \in SellsOf(p.token_address) :
                  sells[i].amount
                      = (p.estimated_tokens * settings.sell_percentage) \div 100

\* C15: at the end of a cycle's exit evaluation, an open position that has
\* not timed out and whose PnL is at or below minus the stop-loss percentage
\* has a sell of all of its units.
C15_StopLossSellsAll ==
    pc = "sleep" =>
        \A p \in active_positions :
            ( /\ p.token_address \in DOMAIN ProfitData
              /\ ~HeldOut(p, now)
              /\ StopLossReached(ProfitData[p.token_address]) )
            => \E i \in SellsOf(p.token_address) :
                  sells[i].amount = p.estimated_tokens

\* C16: at the end of a cycle's exit evaluation, an open position that has
\* not timed out, is above the stop-loss and has declined from its
\* high-water value by the trailing-stop percentage has a sell of all of
\* its units.
C16_TrailingStopSellsAll ==
    pc = "sleep" =>
        \A p \in active_positions :
            ( /\ p.token_address \in DOMAIN ProfitData
              /\ ~HeldOut(p, now)
              /\ ~StopLossReached(ProfitData[p.token_address])
              /\ TrailingStopReached(ProfitData[p.token_address]) )
            => \E i \in SellsOf(p.token_address) :
                  sells[i].amount = p.estimated_tokens

\* the tokens the last refresh took from below the take-profit threshold to
\* it or above it
CrossedFromBelow ==
    {t \in DOMAIN fetches \cap DOMAIN ProfitData :
        /\ ~TakeProfitReached(fetches[t].before)
        /\ TakeProfitReached(ProfitData[t])}

\* C17: with notifications on, a step sends one ProfitTarget alert for every
\* token its refresh took across the take-profit threshold from below, and
\* no other ProfitTarget alert.
C17_OneAlertPerCrossing ==
    settings.notifications_enabled =>
        Cardinality({i \in DOMAIN notes : notes[i].kind = "ProfitTarget"})
            = Cardinality(CrossedFromBelow)

\* C18: with buy notifications on, a step whose buys all succeeded and whose
\* messages were all delivered has sent as many purchase notifications (the
\* buy alert of execute_purchase, the NEW PURCHASE message of
\* process_new_pool) as it made buys.
C18_OneBoughtNotePerBuy ==
    ( /\ settings.notifications_enabled /\ settings.send_buy_alerts
      /\ \A i \in DOMAIN buys : buys[i].kind = "ok"
      /\ \A i \in DOMAIN notes : notes[i].ok )
    => Cardinality({i \in DOMAIN notes : notes[i].kind \in {"BuyAlert", "NewPurchase"}})
           = Len(buys)

\* the pool with a given id
PoolOf(id) == CHOOSE p \in {PoolA, PoolB, PoolC, PoolS} : p.pool_address = id

\* C19: process_new_pool of a pool with less than the minimum liquidity
\* rejects it for low liquidity without a security check and without a buy,
\* and leaves the position store and the valuation table as they were.
C19_LowLiquidityRejectedFirst ==
    [][ ( /\ gate'.pool_address \in PoolIds
          /\ PoolOf(gate'.pool_address).liquidity_sol < settings.min_liquidity_sol )
        => /\ gate'.decision = "low_liquidity"
           /\ gate'.rugcheck = "none"
           /\ buys' = << >>
           /\ active_positions' = active_positions
           /\ ProfitData' = ProfitData ]_vars

\* a pool below the minimum liquidity has just been processed while its
\* token had a position from another pool
C19_Witness ==
    /\ gate.pool_address \in PoolIds
    /\ PoolOf(gate.pool_address).liquidity_sol < settings.min_liquidity_sol
    /\ PoolOf(gate.pool_address).token_address \in HashMapKeys(active_positions)

\* C20: after a failed security check, process_new_pool in strict mode
\* rejects the pool without a buy and without a change of the position store
\* or the valuation table; in permissive mode it accepts the pool with the
\* minimum acceptable score as its score and makes a buy.
C20_RugcheckFailureByMode ==
    [][ gate'.rugcheck = "error" =>
          IF settings.require_rugcheck_success
          THEN /\ gate'.decision = "rugcheck_error"
               /\ buys' = << >>
               /\ active_positions' = active_positions
               /\ ProfitData' = ProfitData
          ELSE /\ gate'.decision = "accept"
               /\ gate'.score = settings.min_acceptable_score
               /\ buys' # << >> ]_vars

\* the security check has just failed in permissive mode and a buy created
\* a position
C20_Witness ==
    /\ gate.rugcheck = "error"
    /\ ~settings.require_rugcheck_success
    /\ \E i \in DOMAIN buys : buys[i].kind = "ok" /\ buys[i].store_changed

\* C21: process_new_pool of a pool whose security check answered with a score
\* below min_acceptable_score rejects it for its score, makes no buy and
\* leaves the position store and the valuation table as they were.
C21_LowScoreNoBuy ==
    [][ ( /\ gate'.rugcheck \in {"ok", "no_data"}
          /\ gate'.score < settings.min_acceptable_score )
        => /\ gate'.decision = "low_score"
           /\ buys' = << >>
           /\ active_positions' = active_positions
           /\ ProfitData' = ProfitData ]_vars

\* a pool with enough liquidity has just been processed and its security
\* check answered with a score below the minimum
C21_Witness ==
    /\ gate.rugcheck = "ok"
    /\ gate.score < settings.min_acceptable_score
    /\ gate.pool_address \in PoolIds
    /\ PoolOf(gate.pool_address).liquidity_sol >= settings.min_liquidity_sol

\* C22: a pool whose token has no pair records at the security data source
\* is not accepted.
C22_NoDataNeverAccepted ==
    gate.rugcheck = "no_data" => gate.decision # "accept"

\* the messages of the last step that were not delivered
FailedNotes == {i \in DOMAIN notes : ~notes[i].ok}

C24_QuietCycleSendsNothing ==
    ( /\ pc = "sleep"
      /\ \A id \in PoolIds : cycle \notin eval_cycles[id]
      /\ now < TimeoutSecs )
    => notes = << >>

\* C25: every position in the store holds more than zero units.
C25_PositionsHoldUnits ==
    \A p \in active_positions : p.estimated_tokens > 0

\* C30: a refresh never lowers highest_value and never raises lowest_value
\* of a valuation it keeps, and in every state lowest_value <=
\* current_value_sol <= highest_value.
C30_WatermarksBracketValue ==
    [][ \A t \in DOMAIN ProfitData' :
           /\ F64Le(ProfitData'[t].lowest_value, ProfitData'[t].current_value_sol)
           /\ F64Le(ProfitData'[t].current_value_sol, ProfitData'[t].highest_value)
           /\ t \in DOMAIN ProfitData /\ t \in HashMapKeys(active_positions')
                => /\ F64Le(ProfitData[t].highest_value, ProfitData'[t].highest_value)
                   /\ F64Le(ProfitData'[t].lowest_value, ProfitData[t].lowest_value)
      ]_vars

\* C26: a pool that is about to be passed to process_new_pool has not been
\* passed to it before.
C26_PoolProcessedOnce ==
    pc = "process" => eval_cycles[new_pools[pool_idx].pool_address] = {}

\* C27: the positions the timeout check finds expired are the positions
\* held for trading.max_hold_time_hours or longer.
C27_TimeoutAtMaxHold ==
    pc = "profit"
        => due = {p \in due \cup active_positions :
                    now - p.purchase_time >= settings.max_hold_time_hours * 3600}

\* C28: a cycle whose discovery poll returned an error goes to sleep with no
\* open position that has reached the timeout: the exit evaluation of that
\* cycle has sold them.
C28_ExitsRunAfterPollError ==
    pc = "sleep" /\ poll_err => TimedOut(active_positions, now) = {}

\* C31: every valuation has an invested amount above zero and a high-water
\* mark that is a number above zero, so neither pnl_percentage nor the
\* decline from the high divides by zero.
C31_PercentDivisorsPositive ==
    \A t \in DOMAIN ProfitData :
        /\ ProfitData[t].entry_value_sol > 0
        /\ ProfitData[t].highest_value # F64NaN
        /\ ProfitData[t].highest_value > 0

\* a valuation whose current value is zero, or not a number, has been made
C31_Witness ==
    \E t \in DOMAIN ProfitData :
        ProfitData[t].current_value_sol \in {0, F64NaN}

C33_PoolsFixedByConfigAndUpstream ==
    polled.sources # << >>
        => \A rand \in BOOLEAN, sample \in SampleAnswers :
              ScanPumpfunPools(polled.dex, rand, sample) = poll_raw

\* C34: the target interval after an iteration that found new pools is the
\* 500 ms interval and is shorter than price_check_interval_ms, which is the
\* target after an iteration that found none; the loop sleeps for the
\* target less the scan duration when that is positive and not at all
\* otherwise.
C34_AdaptiveInterval ==
    slept.ran
        => /\ slept.target_interval
                 = IF slept.found_new_pools THEN AggressiveIntervalMs
                   ELSE settings.price_check_interval_ms
           /\ slept.found_new_pools
                => slept.target_interval < settings.price_check_interval_ms
           /\ slept.sleep_ms
                 = Max2(slept.target_interval - slept.scan_duration, 0)

\* C35: a get_token_price call asks upstream exactly when the token's cache
\* entry is missing or 30 s old or older, answers with the cached price
\* otherwise, and leaves the entry as it was unless upstream answered, in
\* which case the entry is the answered price stamped with the time of the
\* call; the cache changes in no other way.
C35_CacheTtlAndWrites ==
    [][ /\ \A c \in price_calls' :
             /\ c.upstream
                  = (c.before = NoEntry \/ c.time - c.before.time >= PriceCacheTtlSecs)
             /\ ~c.upstream => c.ok /\ c.price = c.before.price /\ c.after = c.before
             /\ c.upstream /\ c.answer = NoAnswer => c.after = c.before
             /\ c.upstream /\ c.answer # NoAnswer
                  => c.after = [price |-> c.answer, time |-> c.time]
        /\ \A t \in Tokens :
             CacheEntry(profit_monitor', t) # CacheEntry(profit_monitor, t)
                => \E c \in price_calls' :
                      /\ c.token_address = t
                      /\ c.answer # NoAnswer
                      /\ c.after = CacheEntry(profit_monitor', t) ]_vars

\* the last step made a call that the cache answered and a call that found
\* a stale entry and got no answer from upstream
C35_Witness ==
    /\ \E c \in price_calls : ~c.upstream
    /\ \E c \in price_calls :
          c.upstream /\ c.before # NoEntry /\ c.answer = NoAnswer

\* the loop has run its last iteration
Halted == pc = "sleep" /\ cycle = MaxCycles + DrainCycles

C37_TradesIgnoreNotifications ==
    [][ /\ pc = "process"
             => \A up \in TelegramAnswers :
                   \E s \in ProcessNewPool(Cur(up), new_pools[pool_idx], now) :
                      /\ s.buys = buys'
                      /\ s.sells = sells'
                      /\ s.active_positions = active_positions'
        /\ pc = "timeouts"
             => \A up \in TelegramAnswers :
                   \E s \in MonitorPositionTimeouts(Cur(up), now) :
                      /\ s.buys = buys'
                      /\ s.sells = sells'
                      /\ s.active_positions = active_positions' ]_vars

\* C38: for every token with a position and a valuation record, the record's
\* tokens_held is the position's estimated_tokens and its entry_value_sol is
\* the position's sol_amount.
C38_ValuationMatchesPosition ==
    \A p \in active_positions :
        p.token_address \in DOMAIN profit_monitor.profit_data
            => LET data == profit_monitor.profit_data[p.token_address]
               IN  /\ data.tokens_held = p.estimated_tokens
                   /\ data.entry_value_sol = p.sol_amount

\* C39: the store never holds more positions than trading.max_positions.
C39_AtMostMaxPositions == Cardinality(active_positions) <= settings.max_positions

\* C40: with enable_auto_trading off, no step carries a buy out or puts a
\* position into the store, and no scan draws sample pools.
C40_NoTradingWhenDisabled ==
    [][ ~settings.enable_auto_trading
        => /\ \A i \in DOMAIN buys' : ~buys'[i].ok
           /\ HashMapKeys(active_positions') \subseteq HashMapKeys(active_positions)
           /\ "Sample" \notin SeqRange(polled'.sources) ]_vars

====
